---- MODULE Spec2Model ----
(***************************************************************************)
(* The keystroke-driven instrument of main.py: the RecordingManager (take  *)
(* capture, save/load, playback thread), the MusicUI fields the handlers   *)
(* write, and the MusicInstrument key handlers.  Key handlers run one at a *)
(* time on the keyboard listener thread; every playback thread runs        *)
(* concurrently with them, one statement group per step.                   *)
(***************************************************************************)
EXTENDS Integers, Sequences, FiniteSets, TLC

\* ------------------------------------------------------------- bounds
MaxTime == 3        \* the clock reads 1..MaxTime
MaxNotes == 2       \* longest take the model records
MaxThreads == 2     \* playback threads alive at the same time
MaxLive == 1        \* of them, in the runs of the whole program
NumKeys == 1        \* how many of the note keys the model presses
MaxFiles == 1       \* files the recordings directory may come to hold
NumMissing == 1     \* how many sample files may be missing from sounds/

\* ------------------------------------------------------------- catalog
NumDigits == 9      \* _setup_keyboard_hooks: range(1, 10) hooks keys 1..9

KeyOrder == <<"a", "s", "d", "f", "g", "h", "j", "k">>

key_to_note ==
    [a |-> "sa", s |-> "re", d |-> "ga", f |-> "ma",
     g |-> "pa", h |-> "dha", j |-> "ni", k |-> "sa_high"]

NoteKeys == {KeyOrder[i] : i \in 1..NumKeys}
Notes == {key_to_note[k] : k \in DOMAIN key_to_note}
Digits == 1..NumDigits
Names == 1..MaxTime          \* recording_<clock reading>
ThreadIds == 1..MaxThreads
ObjIds == 1..(MaxThreads + 1)

VARIABLES
    now,                        \* time.time() / datetime.now()
    sounds,                     \* SoundManager.sounds: notes with a loaded sample
    port,                       \* the latest SoundManager.play_note call
    heap,                       \* the list objects current_recording has named
    current_recording,          \* RecordingManager.current_recording (a reference)
    recording_start_time,       \* 0 models None
    is_recording,
    files,                      \* recordings/<name>.json
    current_mode,
    last_played_note,
    status_message,
    available_recordings,       \* MusicUI.available_recordings
    selection_mode_recordings,
    running,                    \* MusicInstrument.running: the process is alive
    threads,                    \* the playback threads
    event,                      \* the key event or call served last, where recorded
    call,                       \* an add_note call made from another thread
    take,                       \* history: add_note calls since start_recording
    saved                       \* history: the events last saved under each name

vars == <<now, sounds, port, heap, current_recording, recording_start_time,
          is_recording, files, current_mode, last_played_note, status_message,
          available_recordings, selection_mode_recordings, running, threads,
          event, call, take, saved>>

\* ------------------------------------------------------------- helpers
Min(S) == CHOOSE x \in S : \A y \in S : x <= y

\* A note event as the pair the spec calls NoteEvent{note_id, offset}.
Pairs(s) == [i \in 1..Len(s) |-> <<s[i].note, s[i].ts>>]

Buffer == heap[current_recording]

NoFile == [state |-> "absent"]
Truncated == [state |-> "truncated"]

Idle ==
    [pc |-> "none", start_time |-> 0, lst |-> 0, idx |-> 0, current_time |-> 0,
     snapshot |-> <<>>, trig |-> <<>>, cancelled |-> FALSE]

Alive(thr) == {t \in ThreadIds : thr[t].pc # "none"}

\* The list objects some reference still names; the others are reclaimed.
Referenced(cur, thr) == {cur} \cup {thr[t].lst : t \in Alive(thr)}

Collect(h, cur, thr) ==
    [o \in ObjIds |-> IF o \in Referenced(cur, thr) THEN h[o] ELSE <<>>]

\* A fresh list object: any address no playback thread still iterates.
NewList(thr) == Min(ObjIds \ {thr[t].lst : t \in Alive(thr)})

Status(m, a) == [msg |-> m, arg |-> a]

\* No add_note call is in progress and stop_recording has returned nothing.
NoCall == [pc |-> "none", note |-> "", timestamp |-> 0, count |-> -1]

\* ------------------------------------------------------------- Init
Init ==
    /\ now = 1
    /\ \E missing \in SUBSET {key_to_note[KeyOrder[i]] : i \in 1..NumMissing} :
          sounds = Notes \ missing
    /\ port = [note |-> "", started |-> FALSE]
    /\ heap = [o \in ObjIds |-> <<>>]
    /\ current_recording = 1
    /\ recording_start_time = 0
    /\ is_recording = FALSE
    /\ files = [n \in Names |-> NoFile]
    /\ current_mode = "menu"
    /\ last_played_note = ""
    /\ status_message = Status("Welcome", 0)
    /\ available_recordings = <<>>
    /\ selection_mode_recordings = <<>>
    /\ running = TRUE
    /\ threads = [t \in ThreadIds |-> Idle]
    /\ event = <<"none", 0>>
    /\ call = NoCall
    /\ take = <<>>
    /\ saved = [n \in Names |-> <<>>]

\* ------------------------------------------------------------- clock
Tick ==
    /\ running
    /\ now < MaxTime
    /\ now' = now + 1
    /\ UNCHANGED <<sounds, port, heap, current_recording, recording_start_time,
                   is_recording, files, current_mode, last_played_note,
                   status_message, available_recordings,
                   selection_mode_recordings, running, threads, event,
                   call, take, saved>>

\* ------------------------------------------------------------- SoundManager
\* play_note: a sound thread is started only for a note whose sample loaded.
play_note(note) == [note |-> note, started |-> note \in sounds]

\* ------------------------------------------------------------- MusicUI
\* update_last_note: only catalog notes change the field.
update_last_note(prev, note) == IF note \in Notes THEN note ELSE prev

\* ------------------------------------------------------------- RecordingManager
\* add_note as a bug would have it: the event is put in front.
add_note_front(buf, note) ==
    IF is_recording /\ recording_start_time # 0
    THEN <<[kind |-> "tuple", note |-> note,
            ts |-> now - recording_start_time]>> \o buf
    ELSE buf

\* add_note as a bug would have it: the subtraction is the wrong way round.
add_note_negated(buf, note) ==
    IF is_recording /\ recording_start_time # 0
    THEN Append(buf, [kind |-> "tuple", note |-> note,
                      ts |-> recording_start_time - now])
    ELSE buf

\* add_note as a bug would have it: a zero offset is taken for "no offset".
add_note_skip_zero(buf, note) ==
    IF is_recording /\ recording_start_time # 0 /\ now - recording_start_time # 0
    THEN Append(buf, [kind |-> "tuple", note |-> note,
                      ts |-> now - recording_start_time])
    ELSE buf

\* add_note as a bug would have it: the active flag is not tested.
add_note_unguarded(buf, note) ==
    Append(buf, [kind |-> "tuple", note |-> note,
                 ts |-> now - recording_start_time])

\* add_note: the list after the call.
add_note(buf, note) ==
    IF is_recording /\ recording_start_time # 0
    THEN Append(buf, [kind |-> "tuple", note |-> note,
                      ts |-> now - recording_start_time])
    ELSE buf

\* stop_recording: the value it returns.
stop_recording(buf) == Len(buf)

\* json.dump of {'timestamp', 'notes'}: tuples are written as arrays.
JsonDump(buf) == [state |-> "json", timestamp |-> now, notes |-> Pairs(buf)]

\* The loader as a bug would have it: the notes come back last first.
JsonNotes_reversed(doc) ==
    [i \in 1..Len(doc.notes) |->
        [kind |-> "list", note |-> doc.notes[Len(doc.notes) + 1 - i][1],
         ts |-> doc.notes[Len(doc.notes) + 1 - i][2]]]

\* json.load then .get('notes', []): arrays are read back as lists.
JsonNotes(doc) ==
    [i \in 1..Len(doc.notes) |->
        [kind |-> "list", note |-> doc.notes[i][1], ts |-> doc.notes[i][2]]]

\* The file name _handle_menu_selection builds from the wall clock.
FileName == now

Existing == {n \in Names : files[n] # NoFile}

\* get_available_recordings: glob's order is whatever the directory gives.
Orders(S) ==
    {q \in [1..Cardinality(S) -> S] : \A i, j \in 1..Cardinality(S) :
                                          i # j => q[i] # q[j]}

\* playback_recording as a bug would have it: no thread is ever created.
Spawn_none(thr, buf) == thr

\* playback_recording: the thread is created only for a non-empty list.
Spawn(thr, buf) ==
    IF Len(buf) = 0 THEN thr
    ELSE [thr EXCEPT ![Min(ThreadIds \ Alive(thr))] =
             [Idle EXCEPT !.pc = "spawned", !.snapshot = Pairs(buf)]]

CanSpawn == Alive(threads) # ThreadIds

\* ------------------------------------------------------------- key handlers
\* _on_note_key
on_note_key(k) ==
    /\ running
    /\ is_recording => Len(Buffer) < MaxNotes
    /\ port' = play_note(key_to_note[k])
    /\ last_played_note' = update_last_note(last_played_note, key_to_note[k])
    /\ IF is_recording
       THEN /\ heap' = [heap EXCEPT ![current_recording] =
                            add_note(Buffer, key_to_note[k])]
            /\ take' = Append(take, <<key_to_note[k], now - recording_start_time>>)
       ELSE UNCHANGED <<heap, take>>
    /\ UNCHANGED <<now, sounds, current_recording, recording_start_time,
                   is_recording, files, current_mode, status_message,
                   available_recordings, selection_mode_recordings, running, threads, saved>>

\* _on_escape as a bug would have it: the pending selection is left behind.
on_escape_keeps_selection ==
    /\ running
    /\ IF current_mode # "menu"
       THEN /\ is_recording' = FALSE
            /\ current_mode' = "menu"
            /\ status_message' = Status("Returned to main menu", 0)
            /\ take' = <<>>
            /\ threads' = [t \in ThreadIds |->
                              IF current_mode = "playback" /\ t \in Alive(threads)
                              THEN [threads[t] EXCEPT !.cancelled = TRUE]
                              ELSE threads[t]]
       ELSE UNCHANGED <<is_recording, current_mode, status_message, take, threads>>
    /\ UNCHANGED <<now, sounds, port, heap, current_recording, recording_start_time,
                   files, last_played_note, available_recordings,
                   selection_mode_recordings, running, saved>>

\* _on_escape
on_escape ==
    /\ running
    /\ IF current_mode # "menu"
       THEN /\ is_recording' = FALSE
            /\ current_mode' = "menu"
            /\ status_message' = Status("Returned to main menu", 0)
            /\ selection_mode_recordings' = <<>>
            /\ take' = <<>>
            /\ threads' = [t \in ThreadIds |->
                              IF current_mode = "playback" /\ t \in Alive(threads)
                              THEN [threads[t] EXCEPT !.cancelled = TRUE]
                              ELSE threads[t]]
       ELSE UNCHANGED <<is_recording, current_mode, status_message,
                        selection_mode_recordings, take, threads>>
    /\ UNCHANGED <<now, sounds, port, heap, current_recording, recording_start_time,
                   files, last_played_note, available_recordings, running, saved>>

\* _on_space as a bug would have it: the mode changes, the recording goes on.
on_space_keeps_recording ==
    /\ running
    /\ IF current_mode = "record"
       THEN /\ current_mode' = "menu"
            /\ status_message' = Status("Recording stopped. Captured", stop_recording(Buffer))
            /\ take' = <<>>
       ELSE UNCHANGED <<current_mode, status_message, take>>
    /\ UNCHANGED <<now, sounds, port, heap, current_recording, is_recording,
                   recording_start_time, files, last_played_note,
                   available_recordings, selection_mode_recordings, running, threads, saved>>

\* _on_space
on_space ==
    /\ running
    /\ IF current_mode = "record"
       THEN /\ is_recording' = FALSE
            /\ current_mode' = "menu"
            /\ status_message' = Status("Recording stopped. Captured", stop_recording(Buffer))
            /\ take' = <<>>
       ELSE UNCHANGED <<is_recording, current_mode, status_message, take>>
    /\ UNCHANGED <<now, sounds, port, heap, current_recording,
                   recording_start_time, files, last_played_note,
                   available_recordings, selection_mode_recordings, running, threads, saved>>

\* _handle_menu_selection, key '1'
MenuLive ==
    /\ current_mode' = "live"
    /\ status_message' = Status("Live play mode activated", 0)
    /\ UNCHANGED <<heap, current_recording, recording_start_time, is_recording,
                   files, available_recordings, selection_mode_recordings,
                   running, threads, take, saved>>

\* Key '2' as a bug would have it: start_recording keeps the old list.
MenuRecord_keeps_list ==
    /\ recording_start_time' = now
    /\ is_recording' = TRUE
    /\ take' = <<>>
    /\ current_mode' = "record"
    /\ status_message' = Status("Recording started", 0)
    /\ UNCHANGED <<heap, current_recording, files, available_recordings,
                   selection_mode_recordings, running, threads, saved>>

\* _handle_menu_selection, key '2': start_recording binds a new empty list.
MenuRecord ==
    /\ current_recording' = NewList(threads)
    /\ heap' = Collect([heap EXCEPT ![NewList(threads)] = <<>>],
                       NewList(threads), threads)
    /\ recording_start_time' = now
    /\ is_recording' = TRUE
    /\ take' = <<>>
    /\ current_mode' = "record"
    /\ status_message' = Status("Recording started", 0)
    /\ threads' = [t \in ThreadIds |->
                      IF t \in Alive(threads)
                      THEN [threads[t] EXCEPT !.cancelled = TRUE]
                      ELSE threads[t]]
    /\ UNCHANGED <<files, available_recordings, selection_mode_recordings,
                   running, saved>>

\* Key '3' as a bug would have it: the buffer is not tested.
MenuPlayback_always ==
    /\ CanSpawn
    /\ current_mode' = "playback"
    /\ status_message' = Status("Playing back last recording...", 0)
    /\ threads' = Spawn(threads, Buffer)
    /\ UNCHANGED <<heap, current_recording, recording_start_time, is_recording,
                   files, available_recordings, selection_mode_recordings,
                   running, take, saved>>

\* _handle_menu_selection, key '3'
MenuPlayback ==
    /\ IF Len(Buffer) # 0
       THEN /\ CanSpawn
            /\ current_mode' = "playback"
            /\ status_message' = Status("Playing back last recording...", 0)
            /\ threads' = Spawn(threads, Buffer)
       ELSE /\ status_message' = Status("No recording available to play", 0)
            /\ UNCHANGED <<current_mode, threads>>
    /\ UNCHANGED <<heap, current_recording, recording_start_time, is_recording,
                   files, available_recordings, selection_mode_recordings,
                   running, take, saved>>

\* _handle_menu_selection, key '4', with save_recording: open(file, 'w') may
\* fail before it empties the file, json.dump may fail after.
MenuSave ==
    /\ IF Len(Buffer) # 0
       THEN \E outcome \in {"ok", "open fails", "write fails"} :
              /\ outcome # "open fails" =>
                    \/ FileName \in Existing
                    \/ Cardinality(Existing) < MaxFiles
              /\ files' = [files EXCEPT ![FileName] =
                              CASE outcome = "ok" -> JsonDump(Buffer)
                                [] outcome = "open fails" -> @
                                [] OTHER -> Truncated]
              /\ saved' = [saved EXCEPT ![FileName] =
                              CASE outcome = "ok" -> Pairs(Buffer)
                                [] outcome = "open fails" -> @
                                [] OTHER -> <<>>]
              /\ status_message' =
                    IF outcome = "ok"
                    THEN Status("Recording saved as", FileName)
                    ELSE Status("Failed to save recording", 0)
       ELSE /\ status_message' = Status("No recording to save", 0)
            /\ UNCHANGED <<files, saved>>
    /\ UNCHANGED <<heap, current_recording, recording_start_time, is_recording,
                   current_mode, available_recordings,
                   selection_mode_recordings, running, threads, take>>

\* _handle_menu_selection, key '5'
MenuLoad ==
    /\ \E recordings \in Orders(Existing) :
          IF Len(recordings) # 0
          THEN /\ selection_mode_recordings' = recordings
               /\ available_recordings' = recordings
               /\ current_mode' = "select_recording"
               /\ status_message' = Status("Select a recording to load and play", 0)
          ELSE /\ status_message' = Status("No recordings found", 0)
               /\ UNCHANGED <<selection_mode_recordings, available_recordings,
                              current_mode>>
    /\ UNCHANGED <<heap, current_recording, recording_start_time, is_recording,
                   files, running, threads, take, saved>>

\* _handle_menu_selection, key '6': run() leaves its loop within one poll and
\* the process ends, its daemon threads with it. No handler or thread reads
\* running, so nothing is taken to happen between the key and the exit.
MenuExit ==
    /\ running' = FALSE
    /\ UNCHANGED <<heap, current_recording, recording_start_time, is_recording,
                   files, current_mode, status_message, available_recordings,
                   selection_mode_recordings, threads, take, saved>>

\* load_recording: TRUE when it binds current_recording to the loaded list.
LoadOk(name) == files[name] # NoFile /\ files[name] # Truncated

\* _handle_recording_selection as a bug would have it: a failed load drops
\* back to the menu.
SelectRecording_fail_to_menu(d) ==
    /\ IF d - 1 < Len(selection_mode_recordings)
       THEN LET selected_recording == selection_mode_recordings[d]
                loaded == JsonNotes(files[selected_recording])
            IN  \E outcome \in {"ok", "read fails"} :
                  IF LoadOk(selected_recording) /\ outcome = "ok"
                  THEN /\ Len(loaded) # 0 => CanSpawn
                       /\ current_recording' = NewList(threads)
                       /\ heap' = Collect([heap EXCEPT ![NewList(threads)] = loaded],
                                          NewList(threads), threads)
                       /\ current_mode' = "playback"
                       /\ status_message' =
                              Status("Loaded and playing", selected_recording)
                       /\ threads' = Spawn(threads, loaded)
                  ELSE /\ status_message' = Status("Failed to load recording", 0)
                       /\ current_mode' = "menu"
                       /\ UNCHANGED <<heap, current_recording, threads>>
       ELSE /\ status_message' = Status("Invalid selection", 0)
            /\ UNCHANGED <<heap, current_recording, current_mode, threads>>
    /\ UNCHANGED <<recording_start_time, is_recording, files,
                   available_recordings, selection_mode_recordings, running,
                   take, saved>>

\* _handle_recording_selection, with load_recording: reading the file may
\* fail (open or json.load raises) whatever the file holds.
SelectRecording(d) ==
    /\ IF d - 1 < Len(selection_mode_recordings)
       THEN LET selected_recording == selection_mode_recordings[d]
                loaded == JsonNotes(files[selected_recording])
            IN  \E outcome \in {"ok", "read fails"} :
                  IF LoadOk(selected_recording) /\ outcome = "ok"
                  THEN /\ Len(loaded) # 0 => CanSpawn
                       /\ current_recording' = NewList(threads)
                       /\ heap' = Collect([heap EXCEPT ![NewList(threads)] = loaded],
                                          NewList(threads), threads)
                       /\ current_mode' = "playback"
                       /\ status_message' =
                              Status("Loaded and playing", selected_recording)
                       /\ threads' = Spawn(threads, loaded)
                  ELSE /\ status_message' = Status("Failed to load recording", 0)
                       /\ UNCHANGED <<heap, current_recording, current_mode, threads>>
       ELSE /\ status_message' = Status("Invalid selection", 0)
            /\ UNCHANGED <<heap, current_recording, current_mode, threads>>
    /\ UNCHANGED <<recording_start_time, is_recording, files,
                   available_recordings, selection_mode_recordings, running,
                   take, saved>>

\* _on_number_key
on_number_key(d) ==
    /\ running
    /\ CASE current_mode = "menu" ->
              CASE d = 1 -> MenuLive
                [] d = 2 -> MenuRecord
                [] d = 3 -> MenuPlayback
                [] d = 4 -> MenuSave
                [] d = 5 -> MenuLoad
                [] d = 6 -> MenuExit
                [] OTHER -> UNCHANGED <<heap, current_recording,
                              recording_start_time, is_recording, files,
                              current_mode, status_message, available_recordings,
                              selection_mode_recordings, running, threads, take,
                              saved>>
         [] current_mode = "select_recording" -> SelectRecording(d)
         [] OTHER -> UNCHANGED <<heap, current_recording, recording_start_time,
                       is_recording, files, current_mode, status_message,
                       available_recordings, selection_mode_recordings, running,
                       threads, take, saved>>
    /\ UNCHANGED <<now, sounds, port, last_played_note>>

\* ------------------------------------------------------------- playback thread
\* The element the for loop has bound to (note, timestamp).
Current(t) == heap[threads[t].lst][threads[t].idx]

\* target_time = start_time + timestamp
TargetTime(start, timestamp) == start + timestamp

\* The comparison as a bug would have it: the wrong way round.
MustSleep_inverted(target, current) == target < current

\* if target_time > current_time: time.sleep(...)
MustSleep(target, current) == target > current

ThreadFrame ==
    /\ running
    /\ UNCHANGED <<now, sounds, current_recording, recording_start_time,
                is_recording, files, current_mode, status_message,
                available_recordings, selection_mode_recordings, running,
                   event, call, take, saved>>

\* start_time = time.time()
ThreadStart(t) ==
    /\ threads[t].pc = "spawned"
    /\ threads' = [threads EXCEPT ![t].pc = "iter", ![t].start_time = now]
    /\ UNCHANGED <<heap, port, last_played_note>>
    /\ ThreadFrame

\* for ... in self.current_recording: the attribute is read here, once.
ThreadIter(t) ==
    /\ threads[t].pc = "iter"
    /\ threads' = [threads EXCEPT ![t].pc = "next", ![t].lst = current_recording]
    /\ UNCHANGED <<heap, port, last_played_note>>
    /\ ThreadFrame

\* The iterator as a bug would have it: the last element is never reached.
ThreadNext_stops_early(t) ==
    /\ threads[t].pc = "next"
    /\ IF threads[t].idx + 1 < Len(heap[threads[t].lst])
       THEN threads' = [threads EXCEPT ![t].pc = "time", ![t].idx = @ + 1]
       ELSE threads' = [threads EXCEPT ![t].pc = "done"]
    /\ UNCHANGED <<heap, port, last_played_note>>
    /\ ThreadFrame

\* The list iterator's next(): by index, against the list's length now.
ThreadNext(t) ==
    /\ threads[t].pc = "next"
    /\ IF threads[t].idx < Len(heap[threads[t].lst])
       THEN threads' = [threads EXCEPT ![t].pc = "time", ![t].idx = @ + 1]
       ELSE threads' = [threads EXCEPT ![t].pc = "done"]
    /\ UNCHANGED <<heap, port, last_played_note>>
    /\ ThreadFrame

\* target_time, current_time and the comparison; time.sleep is entered here.
ThreadTime(t) ==
    /\ threads[t].pc = "time"
    /\ IF MustSleep(TargetTime(threads[t].start_time, Current(t).ts), now)
       THEN threads' = [threads EXCEPT ![t].pc = "sleep", ![t].current_time = now]
       ELSE threads' = [threads EXCEPT ![t].pc = "play"]
    /\ UNCHANGED <<heap, port, last_played_note>>
    /\ ThreadFrame

\* time.sleep(target_time - current_time) returns: not before the time asked.
ThreadWake(t) ==
    /\ threads[t].pc = "sleep"
    /\ now >= threads[t].current_time
              + (TargetTime(threads[t].start_time, Current(t).ts)
                 - threads[t].current_time)
    /\ threads' = [threads EXCEPT ![t].pc = "play", ![t].current_time = 0]
    /\ UNCHANGED <<heap, port, last_played_note>>
    /\ ThreadFrame

\* sound_manager.play_note(note); callback(note)
ThreadPlay(t) ==
    /\ threads[t].pc = "play"
    /\ port' = play_note(Current(t).note)
    /\ last_played_note' = update_last_note(last_played_note, Current(t).note)
    /\ threads' = [threads EXCEPT ![t].pc = "next",
                      ![t].trig = Append(@, <<Current(t).note, Current(t).ts>>)]
    /\ UNCHANGED heap
    /\ ThreadFrame

\* The loop is exhausted: the thread ends and drops its reference.
ThreadEnd(t) ==
    /\ threads[t].pc = "done"
    /\ threads' = [threads EXCEPT ![t] = Idle]
    /\ heap' = Collect(heap, current_recording, threads')
    /\ UNCHANGED <<port, last_played_note>>
    /\ ThreadFrame

\* ------------------------------------------------------------- the program
\* The runs of the whole program are those in which a playback is started
\* only when the one before it has ended.
OneAtATime == Cardinality(Alive(threads')) <= MaxLive

\* A key event reaches its handler (keyboard.on_press_key).
OnNoteKey(k) == on_note_key(k) /\ UNCHANGED <<event, call>>
OnEscape == on_escape /\ UNCHANGED <<event, call>>
OnSpace == on_space /\ UNCHANGED <<event, call>>
OnNumberKey(d) == on_number_key(d) /\ OneAtATime /\ UNCHANGED <<event, call>>

Next ==
    \/ Tick
    \/ \E k \in NoteKeys : OnNoteKey(k)
    \/ OnEscape
    \/ OnSpace
    \/ \E d \in Digits : OnNumberKey(d)
    \/ \E t \in ThreadIds : ThreadStart(t)
    \/ \E t \in ThreadIds : ThreadIter(t)
    \/ \E t \in ThreadIds : ThreadNext(t)
    \/ \E t \in ThreadIds : ThreadTime(t)
    \/ \E t \in ThreadIds : ThreadWake(t)
    \/ \E t \in ThreadIds : ThreadPlay(t)
    \/ \E t \in ThreadIds : ThreadEnd(t)

Spec == Init /\ [][Next]_vars

\* The control thread alone, with the delivered event recorded: the same
\* handlers, each step remembering which key it served.
KeyNoteKey(k) == on_note_key(k) /\ event' = <<"note", k>> /\ UNCHANGED call
KeyEscape == on_escape /\ event' = <<"esc", 0>> /\ UNCHANGED call
KeySpace == on_space /\ event' = <<"space", 0>> /\ UNCHANGED call
KeyNumberKey(d) ==
    on_number_key(d) /\ OneAtATime /\ event' = <<"digit", d>> /\ UNCHANGED call

NextKeys ==
    \/ Tick
    \/ \E k \in NoteKeys : KeyNoteKey(k)
    \/ KeyEscape
    \/ KeySpace
    \/ \E d \in Digits : KeyNumberKey(d)

SpecKeys == Init /\ [][NextKeys]_vars

\* Recording and playing back without the recordings directory: one more
\* note key, and a playback may be started while another is alive. Keys '4'
\* and '5' are left out, so no file is ever written or listed, and a new
\* take is started only while no playback thread is alive.
PlayKeys == {KeyOrder[i] : i \in 1..(NumKeys + 1)}
PlayDigits == Digits \ {4, 5}

PlayNumberKey(d) ==
    /\ d = 2 => Alive(threads) = {}
    /\ on_number_key(d)
    /\ UNCHANGED <<event, call>>

NextPlay ==
    \/ Tick
    \/ \E k \in PlayKeys : OnNoteKey(k)
    \/ OnEscape
    \/ OnSpace
    \/ \E d \in PlayDigits : PlayNumberKey(d)
    \/ \E t \in ThreadIds : ThreadStart(t)
    \/ \E t \in ThreadIds : ThreadIter(t)
    \/ \E t \in ThreadIds : ThreadNext(t)
    \/ \E t \in ThreadIds : ThreadTime(t)
    \/ \E t \in ThreadIds : ThreadWake(t)
    \/ \E t \in ThreadIds : ThreadPlay(t)
    \/ \E t \in ThreadIds : ThreadEnd(t)

SpecPlay == Init /\ [][NextPlay]_vars

\* The same under a fair scheduler: the clock goes on to the end of its
\* range and a playback thread that can take a step takes one.
ThreadStep(t) ==
    \/ ThreadStart(t)
    \/ ThreadIter(t)
    \/ ThreadNext(t)
    \/ ThreadTime(t)
    \/ ThreadWake(t)
    \/ ThreadPlay(t)
    \/ ThreadEnd(t)

SpecPlayFair ==
    /\ SpecPlay
    /\ WF_vars(Tick)
    /\ \A t \in ThreadIds : WF_vars(ThreadStep(t))

\* ------------------------------------------------------------- the manager
\* The RecordingManager called directly: start_recording, stop_recording
\* and add_note from one thread, each call whole, and add_note from a
\* second thread, one statement at a time. Nothing is locked.
PlayNotes == {key_to_note[k] : k \in PlayKeys}

ManagerFrame ==
    /\ running
    /\ UNCHANGED <<now, sounds, port, files, current_mode, last_played_note,
                   status_message, available_recordings,
                   selection_mode_recordings, running, threads, saved>>

\* start_recording
StartRecording ==
    /\ current_recording' = NewList(threads)
    /\ heap' = Collect([heap EXCEPT ![NewList(threads)] = <<>>],
                       NewList(threads), threads)
    /\ recording_start_time' = now
    /\ is_recording' = TRUE
    /\ take' = <<>>
    /\ event' = <<"start", 0>>
    /\ call' = [call EXCEPT !.count = -1]
    /\ ManagerFrame

\* stop_recording; the count it returns is kept in call.count.
StopRecording ==
    /\ is_recording' = FALSE
    /\ take' = <<>>
    /\ event' = <<"stop", 0>>
    /\ call' = [call EXCEPT !.count = stop_recording(Buffer)]
    /\ UNCHANGED <<heap, current_recording, recording_start_time>>
    /\ ManagerFrame

\* add_note, called on the thread that calls start and stop.
AddNote(note) ==
    /\ (is_recording /\ recording_start_time # 0) => Len(Buffer) < MaxNotes
    /\ heap' = [heap EXCEPT ![current_recording] = add_note(Buffer, note)]
    /\ take' = IF is_recording /\ recording_start_time # 0
               THEN Append(take, <<note, now - recording_start_time>>)
               ELSE take
    /\ event' = <<"add_note", note>>
    /\ UNCHANGED <<current_recording, recording_start_time, is_recording, call>>
    /\ ManagerFrame

\* add_note is entered on the second thread.
AddNoteEnter(note) ==
    /\ call.pc = "none"
    /\ call' = [call EXCEPT !.pc = "test", !.note = note]
    /\ UNCHANGED <<heap, current_recording, recording_start_time, is_recording,
                   event, take>>
    /\ ManagerFrame

\* if self.is_recording and self.recording_start_time:
AddNoteTest ==
    /\ call.pc = "test"
    /\ call' = IF is_recording /\ recording_start_time # 0
               THEN [call EXCEPT !.pc = "stamp"]
               ELSE [call EXCEPT !.pc = "none", !.note = ""]
    /\ UNCHANGED <<heap, current_recording, recording_start_time, is_recording,
                   event, take>>
    /\ ManagerFrame

\* timestamp = time.time() - self.recording_start_time
AddNoteStamp ==
    /\ call.pc = "stamp"
    /\ call' = [call EXCEPT !.pc = "append",
                            !.timestamp = now - recording_start_time]
    /\ UNCHANGED <<heap, current_recording, recording_start_time, is_recording,
                   event, take>>
    /\ ManagerFrame

\* self.current_recording.append((note, timestamp))
AddNoteAppend ==
    /\ call.pc = "append"
    /\ Len(Buffer) < MaxNotes
    /\ heap' = [heap EXCEPT ![current_recording] =
                    Append(Buffer, [kind |-> "tuple", note |-> call.note,
                                    ts |-> call.timestamp])]
    /\ take' = Append(take, <<call.note, call.timestamp>>)
    /\ call' = [call EXCEPT !.pc = "none", !.note = "", !.timestamp = 0]
    /\ UNCHANGED <<current_recording, recording_start_time, is_recording, event>>
    /\ ManagerFrame

NextManager ==
    \/ Tick
    \/ StartRecording
    \/ StopRecording
    \/ \E note \in PlayNotes : AddNote(note)
    \/ \E note \in PlayNotes : AddNoteEnter(note)
    \/ AddNoteTest
    \/ AddNoteStamp
    \/ AddNoteAppend

SpecManager == Init /\ [][NextManager]_vars

\* ------------------------------------------------------------- claims
Sorted(buf) ==
    /\ \A i \in 1..Len(buf) : buf[i].ts >= 0
    /\ \A i, j \in 1..Len(buf) : i < j => buf[i].ts <= buf[j].ts

IsPrefix(p, q) == Len(p) <= Len(q) /\ p = SubSeq(q, 1, Len(p))

\* C1: a step that stops an active recording (space or escape) leaves in the
\* buffer exactly the events add_note was called with since start_recording,
\* in that order, and the count stop_recording returns, which the space
\* handler reports, is their number.
C1_StopReturnsTake ==
    [][(is_recording /\ ~is_recording') =>
          /\ Pairs(heap'[current_recording']) = take
          /\ status_message'.msg = "Recording stopped. Captured" =>
                status_message'.arg = Len(take)]_vars

\* C1 witness: a take of two events at different offsets has been stopped.
C1_Witness ==
    /\ status_message = Status("Recording stopped. Captured", 2)
    /\ ~is_recording
    /\ Len(Buffer) = 2
    /\ Buffer[1].ts < Buffer[2].ts

\* C2: a playback thread has triggered exactly the events its loop has gone
\* past, in list order and each once; it stands at the trigger call only
\* when the clock has reached start_time + offset; and it sleeps only when
\* that target was still ahead at the comparison.
C2_InOrderNotEarly ==
    \A t \in ThreadIds :
        threads[t].lst # 0 =>
            LET th == threads[t]
                lst == heap[th.lst]
                passed == IF th.pc \in {"time", "sleep", "play"}
                          THEN th.idx - 1 ELSE th.idx
            IN  /\ Len(th.trig) = passed
                /\ th.trig = Pairs(SubSeq(lst, 1, passed))
                /\ th.pc = "play" =>
                      now >= TargetTime(th.start_time, lst[th.idx].ts)
                /\ th.pc = "sleep" =>
                      TargetTime(th.start_time, lst[th.idx].ts) > th.current_time

\* C2 witness: the second event's target time has passed when the thread
\* reaches its trigger, the first event having been triggered.
C2_Witness ==
    \E t \in ThreadIds :
        /\ threads[t].pc = "play"
        /\ threads[t].idx = 2
        /\ Len(threads[t].trig) = 1
        /\ now > TargetTime(threads[t].start_time, Current(t).ts)
        /\ Current(t).ts > 0

\* C3: once a playback is cancelled (escape left Playback mode, or a new
\* recording was started, while its thread was alive) it triggers no
\* further note.
C3_CancelledStaysSilent ==
    [][\A t \in ThreadIds :
          threads[t].cancelled =>
              Len(threads'[t].trig) <= Len(threads[t].trig)]_vars

\* C4: what a playback thread triggers is the content the buffer had when
\* playback_recording was called: always a prefix of it, and all of it
\* when the loop is done.
C4_PlaysSnapshot ==
    \A t \in ThreadIds :
        /\ IsPrefix(threads[t].trig, threads[t].snapshot)
        /\ threads[t].pc = "done" => threads[t].trig = threads[t].snapshot

\* C5: the events of the current recording buffer have non-negative offsets
\* in non-decreasing order.
C5_BufferSorted == Sorted(Buffer)

\* C5 witness: a take in progress holds two events at different offsets.
C5_Witness ==
    /\ is_recording
    /\ Len(Buffer) = 2
    /\ Buffer[1].ts < Buffer[2].ts

C7_SecondSelectResets ==
    (event = <<"digit", 2>> /\ is_recording) => Len(Buffer) = 0

\* C7 as amended: select(2) pressed in Menu mode starts a recording on an
\* empty buffer, whatever take the buffer held; select(2) pressed again in
\* Recording mode is ignored and leaves the buffer and the recording as
\* they are.
C7_SelectFromMenuResets ==
    [][(on_number_key(2) /\ event' = <<"digit", 2>>) =>
          CASE current_mode = "menu" ->
                  /\ is_recording'
                  /\ current_mode' = "record"
                  /\ Len(heap'[current_recording']) = 0
            [] current_mode = "record" ->
                  /\ heap'[current_recording'] = Buffer
                  /\ is_recording' = is_recording
                  /\ current_mode' = "record"
            [] OTHER -> TRUE]_vars

\* C7 witness: a second recording has just been started from Menu after a
\* first take of two events was saved; the buffer holds none of them.
C7_Witness ==
    /\ event = <<"digit", 2>>
    /\ current_mode = "record"
    /\ Len(Buffer) = 0
    /\ \E n \in Names : Len(saved[n]) = 2

\* C8: a note key in LivePlay, Recording, Playback or SelectRecording mode
\* calls play_note for its note and leaves the mode as it is; the event is
\* appended to the buffer in Recording mode and the buffer is untouched in
\* the other three.
C8_NoteKeyRouting ==
    [][\A k \in NoteKeys :
          (on_note_key(k) /\ current_mode # "menu") =>
              /\ port' = [note |-> key_to_note[k],
                          started |-> key_to_note[k] \in sounds]
              /\ current_mode' = current_mode
              /\ current_recording' = current_recording
              /\ IF current_mode = "record"
                 THEN heap'[current_recording] =
                          Append(Buffer, [kind |-> "tuple", note |-> key_to_note[k],
                                          ts |-> now - recording_start_time])
                 ELSE heap' = heap]_vars

\* C8 witness: in Recording mode the buffer ends with the note just played,
\* recorded at offset zero.
C8_Witness ==
    /\ current_mode = "record"
    /\ Len(Buffer) >= 1
    /\ Buffer[Len(Buffer)].note = port.note
    /\ Buffer[Len(Buffer)].ts = 0

\* C9: escape in a mode other than Menu moves the mode to Menu, empties
\* the pending selection and leaves no recording active; escape in Menu
\* mode changes nothing.
C9_EscapeToMenu ==
    [][on_escape =>
          IF current_mode # "menu"
          THEN /\ current_mode' = "menu"
               /\ selection_mode_recordings' = <<>>
               /\ ~is_recording'
          ELSE UNCHANGED <<port, heap, current_recording, recording_start_time,
                           is_recording, files, current_mode, last_played_note,
                           status_message, available_recordings,
                           selection_mode_recordings, running, threads, take,
                           saved>>]_vars

\* C9 witness: escape has left SelectRecording mode, the list shown still
\* known to the UI and the pending selection empty.
C9_Witness ==
    /\ current_mode = "menu"
    /\ status_message.msg = "Returned to main menu"
    /\ available_recordings # <<>>
    /\ selection_mode_recordings = <<>>

\* C10: escape pressed in Recording mode leaves the buffer empty.
C10_EscapeDiscardsTake ==
    [][(on_escape /\ current_mode = "record") =>
          Len(heap'[current_recording']) = 0]_vars

\* The playback thread the step has created, if any: a slot that was free
\* and now holds a thread yet to run, on the given events.
Started(events) ==
    \E t \in ThreadIds :
        /\ threads[t].pc = "none"
        /\ threads'[t].pc = "spawned"
        /\ threads'[t].snapshot = events

\* C11 as stated: in SelectRecording mode every select(i) with i in range
\* loads recording ri into the buffer, moves the mode to Playback and starts
\* a playback thread on ri's events; out of range the mode stays, the
\* status reads "Invalid selection" and buffer and threads are untouched.
C11_SelectAlwaysPlays ==
    [][\A d \in Digits :
          (current_mode = "select_recording" /\ on_number_key(d)) =>
              IF d <= Len(available_recordings)
              THEN /\ current_mode' = "playback"
                   /\ Pairs(heap'[current_recording']) = saved[available_recordings[d]]
                   /\ Started(saved[available_recordings[d]])
              ELSE /\ current_mode' = "select_recording"
                   /\ status_message' = Status("Invalid selection", 0)
                   /\ UNCHANGED <<heap, current_recording, threads>>]_vars

\* C11 as amended: select(i) in range plays ri when load_recording
\* succeeds: the buffer then holds ri's saved events, the mode is Playback
\* and a playback thread is started on them. When the load fails the mode
\* stays SelectRecording with a failed-to-load status, buffer and threads
\* untouched, and a record that is not well formed always fails. Out of
\* range is as stated.
C11_SelectPlaysWhenLoaded ==
    [][\A d \in Digits :
          (current_mode = "select_recording" /\ on_number_key(d)) =>
              IF d <= Len(available_recordings)
              THEN \/ /\ LoadOk(available_recordings[d])
                      /\ current_mode' = "playback"
                      /\ status_message' =
                             Status("Loaded and playing", available_recordings[d])
                      /\ Pairs(heap'[current_recording']) = saved[available_recordings[d]]
                      /\ Started(saved[available_recordings[d]])
                   \/ /\ current_mode' = "select_recording"
                      /\ status_message' = Status("Failed to load recording", 0)
                      /\ UNCHANGED <<heap, current_recording, threads>>
              ELSE /\ current_mode' = "select_recording"
                   /\ status_message' = Status("Invalid selection", 0)
                   /\ UNCHANGED <<heap, current_recording, threads>>]_vars

\* C11 witness: the record chosen from the list has been loaded, two events
\* long, and its playback thread is created and yet to run.
C11_Witness ==
    /\ current_mode = "playback"
    /\ status_message.msg = "Loaded and playing"
    /\ status_message.arg = available_recordings[1]
    /\ Len(Buffer) = 2
    /\ \E t \in ThreadIds :
          threads[t].pc = "spawned" /\ threads[t].snapshot = Pairs(Buffer)

\* C12: select(3) in Menu mode with a non-empty buffer moves the mode to
\* Playback and starts a playback thread on the buffer's events; with an
\* empty buffer the mode stays Menu, the status reads "No recording
\* available to play", no thread is started and no note is triggered.
C12_PlaybackIffNonEmpty ==
    [][(current_mode = "menu" /\ on_number_key(3)) =>
          IF Len(Buffer) # 0
          THEN /\ current_mode' = "playback"
               /\ Started(Pairs(Buffer))
          ELSE /\ current_mode' = "menu"
               /\ status_message' = Status("No recording available to play", 0)
               /\ UNCHANGED <<threads, port, last_played_note>>]_vars

\* C12 witness: select(3) has started the playback of a take of two
\* events recorded in this session.
C12_Witness ==
    /\ current_mode = "playback"
    /\ status_message.msg = "Playing back last recording..."
    /\ Len(Buffer) = 2
    /\ Buffer[1].kind = "tuple"
    /\ \E t \in ThreadIds :
          threads[t].pc = "spawned" /\ threads[t].snapshot = Pairs(Buffer)

\* C19: between key-event handlers, a recording is active exactly when
\* the mode is Recording.
C19_RecordingIffRecordMode == is_recording <=> current_mode = "record"

\* C19 witness: a recording is active in Recording mode for the second
\* time, the first take stopped and saved.
C19_Witness ==
    /\ is_recording
    /\ current_mode = "record"
    /\ Len(Buffer) = 1
    /\ \E n \in Names : Len(saved[n]) = 2

\* C18: a failed load of the selected recording (the step does not end in
\* "Loaded and playing", as it never does for a record that is not well
\* formed) sets the status "Failed to load recording" and leaves the mode
\* SelectRecording, the buffer, the threads and every other field of the
\* interaction state as they were; a failed save sets "Failed to save
\* recording" and leaves the mode Menu and the same fields as they were.
C18_FailureOnlySetsStatus ==
    [][/\ \A d \in 1..Len(selection_mode_recordings) :
             (current_mode = "select_recording" /\ on_number_key(d)) =>
                 /\ ~LoadOk(selection_mode_recordings[d]) =>
                        status_message'.msg # "Loaded and playing"
                 /\ status_message'.msg # "Loaded and playing" =>
                        /\ status_message' = Status("Failed to load recording", 0)
                        /\ current_mode' = "select_recording"
                        /\ UNCHANGED <<heap, current_recording, threads, port,
                                       last_played_note, is_recording,
                                       available_recordings,
                                       selection_mode_recordings, running>>
       /\ (current_mode = "menu" /\ Len(Buffer) # 0 /\ on_number_key(4)
            /\ status_message'.msg # "Recording saved as") =>
              /\ status_message' = Status("Failed to save recording", 0)
              /\ current_mode' = "menu"
              /\ UNCHANGED <<heap, current_recording, threads, port,
                             last_played_note, is_recording,
                             available_recordings, selection_mode_recordings,
                             running>>]_vars

\* C18 witness: the record selected is the remains of a failed save; the
\* load has failed and the mode is still SelectRecording, the take in the
\* buffer.
C18_Witness ==
    /\ current_mode = "select_recording"
    /\ status_message = Status("Failed to load recording", 0)
    /\ \E i \in 1..Len(selection_mode_recordings) :
          files[selection_mode_recordings[i]] = Truncated
    /\ Len(Buffer) = 2

\* The fields the spec calls the SessionContext.
SessionContext ==
    <<current_mode, last_played_note, status_message, available_recordings,
      selection_mode_recordings>>

\* C16: every step that changes a field of the SessionContext is a key
\* handler's; no step of a playback thread changes any of them.
C16_SingleWriter ==
    [][SessionContext' # SessionContext =>
          \/ \E k \in PlayKeys : on_note_key(k)
          \/ on_escape
          \/ on_space
          \/ \E d \in Digits : on_number_key(d)]_vars

\* A playback thread that has yet to trigger an event of the list it plays.
HasEventsLeft(t) ==
    \/ threads[t].pc \in {"spawned", "iter", "time", "sleep", "play"}
    \/ threads[t].pc = "next" /\ threads[t].idx < Len(heap[threads[t].lst])

\* C20: at any time at most one playback thread has events left to
\* trigger, so no playback is started while an earlier one is under way.
C20_OnePlaybackAtATime ==
    Cardinality({t \in ThreadIds : HasEventsLeft(t)}) <= 1

\* A thread asleep until a time the clock of the model does not reach.
PastClock(t) ==
    /\ threads[t].pc = "sleep"
    /\ TargetTime(threads[t].start_time, Current(t).ts) > MaxTime

\* C13: under a fair scheduler, and while the process is alive, every
\* playback thread started reaches the end of its loop, and when it leaves
\* the loop it has triggered every event of the list it played, in order,
\* whether or not their samples are loaded; playback_recording of an empty
\* list creates no thread.
C13_PlaybackCompletes ==
    /\ \A t \in ThreadIds :
          (threads[t].pc = "spawned") ~>
              (threads[t].pc = "done" \/ ~running \/ PastClock(t))
    /\ [][\A t \in ThreadIds :
             (threads[t].pc = "next" /\ threads'[t].pc = "done") =>
                 threads[t].trig = Pairs(heap[threads[t].lst])]_vars
    /\ [](Spawn(threads, <<>>) = threads)

\* C13 witness: a playback of two events has reached its end having
\* triggered both, the sample of one of them missing.
C13_Witness ==
    \E t \in ThreadIds :
        /\ threads[t].pc = "done"
        /\ Len(threads[t].trig) = 2
        /\ \E i \in 1..2 : threads[t].trig[i][1] \notin sounds

\* C17: a failed save leaves what was stored under the name as it was: a
\* name that holds a complete record holds, after any step, that record or
\* the complete record of a successful save, never an empty or truncated
\* file, and the step that fails says so in the status.
C17_SaveNeverTruncates ==
    [][\A n \in Names :
          (files[n] # NoFile /\ files[n] # Truncated) =>
              \/ files'[n] = files[n]
              \/ /\ files'[n] = JsonDump(Buffer)
                 /\ status_message' = Status("Recording saved as", n)]_vars

\* C14: add_note called while no recording is active leaves the buffer,
\* the list it is, the active flag and the start instant as they were,
\* whatever the note and however often it is called.
C14_InactiveAddNoteIsNoOp ==
    [][\A note \in PlayNotes :
          (~is_recording /\ AddNote(note)) =>
              UNCHANGED <<heap, current_recording, is_recording,
                          recording_start_time>>]_vars

\* C14 witness: add_note was the last call, made after a take of two events
\* had been stopped; the buffer still holds the two.
C14_Witness ==
    /\ event[1] = "add_note"
    /\ ~is_recording
    /\ call.count = 2
    /\ Len(Buffer) = 2

\* C15: once stop_recording has returned, and until start_recording is
\* called again, the buffer has the length stop_recording returned.
C15_StoppedBufferStable ==
    (~is_recording /\ call.count >= 0) => Len(Buffer) = call.count

====
